---- MODULE Spec2Model ----
(***************************************************************************)
(* A model of src/main.py: the TwitterTokenScraper pipeline.               *)
(*                                                                         *)
(*   get_list_members -> { get_user_tweets -> extract_token_mentions }     *)
(*   per member -> csv.DictWriter at the end of scrape_list_tokens.        *)
(*                                                                         *)
(* Texts are sequences of one-character strings; offsets into a text are   *)
(* 0-based, as in Python (match.start(), match.end(), slices).             *)
(***************************************************************************)
EXTENDS Integers, Sequences, FiniteSets, TLC

(***************************************************************************)
(* Bounds of the model.                                                    *)
(***************************************************************************)
\* the number of segments an input text of SpecExtract is built from
MaxSegs == 5
\* the number of posts one posts response holds at most
MaxPosts == 2
\* the number of runs of the program one behaviour holds at most
MaxRuns == 3

(***************************************************************************)
(* Program constants.                                                      *)
(***************************************************************************)
\* r'\$([A-Z]{3,10})\b' : the lower repetition bound
MinTokenLen == 3
\* r'\$([A-Z]{3,10})\b' : the upper repetition bound
MaxTokenLen == 10
\* match.start() - 100, match.end() + 100
ContextRadius == 100
\* get_user_tweets(self, user_id, days = 7)
DefaultDays == 7
\* 'max_results': 100
MaxResults == 100

(***************************************************************************)
(* Character classes of Python's re (str patterns) and of str.strip().     *)
(***************************************************************************)
Upper ==
    {"A", "B", "C", "D", "E", "F", "G", "H", "I", "J", "K", "L", "M",
     "N", "O", "P", "Q", "R", "S", "T", "U", "V", "W", "X", "Y", "Z"}

Lower ==
    {"a", "b", "c", "d", "e", "f", "g", "h", "i", "j", "k", "l", "m",
     "n", "o", "p", "q", "r", "s", "t", "u", "v", "w", "x", "y", "z"}

Digit == {"0", "1", "2", "3", "4", "5", "6", "7", "8", "9"}

\* The alphanumeric characters of U+0080 .. U+00FF (str.isalnum): Python's \w
\* on a str pattern is Unicode-aware.  Characters above U+00FF are outside
\* what a string of the model can hold; the same rule applies to them.
Latin1Alnum ==
    {
     "ª", "²", "³", "µ", "¹", "º", "¼", "½", "¾", "À", "Á", "Â", "Ã",
     "Ä", "Å", "Æ", "Ç", "È", "É", "Ê", "Ë", "Ì", "Í", "Î", "Ï", "Ð",
     "Ñ", "Ò", "Ó", "Ô", "Õ", "Ö", "Ø", "Ù", "Ú", "Û", "Ü", "Ý", "Þ",
     "ß", "à", "á", "â", "ã", "ä", "å", "æ", "ç", "è", "é", "ê", "ë",
     "ì", "í", "î", "ï", "ð", "ñ", "ò", "ó", "ô", "õ", "ö", "ø", "ù",
     "ú", "û", "ü", "ý", "þ", "ÿ" }

\* What str.isspace() accepts up to U+00FF: U+0009 .. U+000D, U+001C .. U+001F,
\* U+0020, U+0085, U+00A0.  The 17 further Unicode spaces (U+1680,
\* U+2000 .. U+200A, U+2028, U+2029, U+202F, U+205F, U+3000) are above U+00FF.
Whitespace ==
    {"\t", "\n", "", "\f", "\r", "", "", "", "", " ",
     "", " "}

\* \w on a str pattern: alphanumeric or the underscore
WordChars == Upper \cup Lower \cup Digit \cup {"_"} \cup Latin1Alnum

\* [A-Z]
IsUpper(c) == c \in Upper

\* \w : what \b tells apart from everything else
IsWord(c) == c \in WordChars

\* what str.strip() removes
IsSpace(c) == c \in Whitespace

Min(a, b) == IF a <= b THEN a ELSE b

Max(a, b) == IF a >= b THEN a ELSE b

\* text[i], 0-based
At(text, i) == text[i + 1]

\* text[a:b], 0-based, for 0 <= a <= b <= len(text)
Slice(text, a, b) == SubSeq(text, a + 1, b)

(***************************************************************************)
(* re.finditer(r'\$([A-Z]{3,10})\b', text)                                 *)
(***************************************************************************)
NoMatch == [start |-> -1, end |-> -1]

\* \b at offset p: exactly one of the characters around p is a word character
WordBoundary_NoCheck(text, p) == TRUE

WordBoundary(text, p) ==
    LET before == p > 0 /\ IsWord(At(text, p - 1))
        after == p < Len(text) /\ IsWord(At(text, p))
    IN  before # after

\* [A-Z]{3,10} is greedy: it first takes as many letters as it can, 10 at most
RECURSIVE UpperRun(_, _, _)
UpperRun(text, p, n) ==
    IF n < MaxTokenLen /\ p + n < Len(text) /\ IsUpper(At(text, p + n))
    THEN UpperRun(text, p, n + 1)
    ELSE n

\* ... and gives letters back one at a time until \b holds after it, or fewer
\* than 3 are left: the number of letters of the match, or -1
RECURSIVE Backtrack(_, _, _)
Backtrack(text, p, n) ==
    IF n < MinTokenLen THEN -1
    ELSE IF WordBoundary(text, p + n) THEN n
    ELSE Backtrack(text, p, n - 1)

\* the match attempt anchored at offset s
MatchAt(text, s) ==
    IF s < Len(text) /\ At(text, s) = "$"
    THEN LET n == Backtrack(text, s + 1, UpperRun(text, s + 1, 0))
         IN  IF n < 0 THEN NoMatch ELSE [start |-> s, end |-> s + 1 + n]
    ELSE NoMatch

\* the leftmost match that starts at or after pos (one step of the scan)
Search(text, pos) ==
    LET hits == {s \in pos .. Len(text) - 1 : MatchAt(text, s) # NoMatch}
    IN  IF hits = {} THEN NoMatch
        ELSE MatchAt(text, CHOOSE s \in hits : \A t \in hits : s <= t)

\* the scan goes on from the end of each match: the matches do not overlap
RECURSIVE FindIterFrom(_, _)
FindIterFrom(text, pos) ==
    LET m == Search(text, pos)
    IN  IF m = NoMatch THEN << >> ELSE <<m>> \o FindIterFrom(text, m.end)

finditer(text) == FindIterFrom(text, 0)

(***************************************************************************)
(* extract_token_mentions                                                  *)
(***************************************************************************)
\* str.strip(): the offsets of the first and after the last non-space character
RECURSIVE LStrip(_, _)
LStrip(s, i) ==
    IF i < Len(s) /\ IsSpace(At(s, i)) THEN LStrip(s, i + 1) ELSE i

RECURSIVE RStrip(_, _, _)
RStrip(s, i, j) ==
    IF j > i /\ IsSpace(At(s, j - 1)) THEN RStrip(s, i, j - 1) ELSE j

Strip_LeftOnly(s) == Slice(s, LStrip(s, 0), Len(s))

Strip(s) ==
    LET i == LStrip(s, 0)
    IN  Slice(s, i, RStrip(s, i, Len(s)))

\* token = match.group(1)
Group1(text, m) == Slice(text, m.start + 1, m.end)

\* start = max(0, match.start() - 100)
ContextStart(text, m) == Max(0, m.start - ContextRadius)

\* end = min(len(text), match.end() + 100)
ContextEnd_OffByOne(text, m) == Min(Len(text), m.end + ContextRadius + 1)

ContextEnd(text, m) == Min(Len(text), m.end + ContextRadius)

\* text[start:end], before .strip()
Window(text, m) == Slice(text, ContextStart(text, m), ContextEnd(text, m))

\* context = text[start:end].strip()
Context(text, m) == Strip(Window(text, m))

extract_token_mentions(text) ==
    LET ms == finditer(text)
    IN  [i \in 1 .. Len(ms) |->
            [token |-> Group1(text, ms[i]), context |-> Context(text, ms[i])]]

(***************************************************************************)
(* The input texts of SpecExtract: concatenations of at most MaxSegs       *)
(* segments.  The letter segments give runs of 2, 3, 4, 5, 10 and more     *)
(* than 10 letters, followed by a space, an ASCII or a non-ASCII word       *)
(* character, a dollar sign or the end; the pad is ContextRadius characters *)
(* long, with a space at its start and a vertical tab (U+000B) at its end,  *)
(* so that windows are clipped at, and next to, white space.                *)
(***************************************************************************)
Pad ==
    [i \in 1 .. ContextRadius |->
        IF i = 1 THEN " " ELSE IF i = ContextRadius THEN "" ELSE "."]

Segments ==
    { <<"$">>,
      <<"A", "B">>,
      <<"B", "T", "C">>,
      <<"A", "B", "C", "D", "E", "F", "G", "H", "I", "J">>,
      <<" ">>,
      <<"x">>,
      <<"é">>,
      Pad }

RECURSIVE Texts(_)
Texts(n) ==
    IF n = 0 THEN { << >> }
    ELSE LET shorter == Texts(n - 1)
         IN  shorter \cup {t \o s : t \in shorter, s \in Segments}

TextInputs == Texts(MaxSegs)

(***************************************************************************)
(* The upstream API, as the program sees it.  A response is a transport    *)
(* fault (requests.get raises), a non-success status (raise_for_status     *)
(* raises) or a JSON body, which holds a 'data' list or no 'data' key.     *)
(***************************************************************************)
\* the accounts a list may hold; a response lists each at most once
Users == { <<"1", "1">>, <<"2", "2">> }

Post(id, created_at, body) == [id |-> id, created_at |-> created_at, text |-> body]

\* two mentions of one token; one mention after a comma; no mention
PostPool ==
    { Post(<<"9", "1">>, <<"d", "1">>,
           <<"$", "B", "T", "C", " ", "$", "B", "T", "C", " ", "$", "E", "T", "H">>),
      Post(<<"9", "2">>, <<"d", "2">>, <<"a", ",", "$", "E", "T", "H">>),
      Post(<<"9", "3">>, <<"d", "3">>, <<"g", "m">>) }

\* the sequences of 1 to n different elements of S
RECURSIVE Arrangements(_, _)
Arrangements(S, n) ==
    IF n = 0 THEN { }
    ELSE LET shorter == Arrangements(S, n - 1)
         IN  {<<x>> : x \in S}
                \cup {q \o <<x>> : q \in shorter, x \in S}

Range(q) == {q[k] : k \in 1 .. Len(q)}

Distinct(q) == Cardinality(Range(q)) = Len(q)

TransportError == [status |-> "transport_error", has_data |-> FALSE, data |-> << >>]

HttpError == [status |-> "http_error", has_data |-> FALSE, data |-> << >>]

OkNoData == [status |-> "ok", has_data |-> FALSE, data |-> << >>]

OkData(d) == [status |-> "ok", has_data |-> TRUE, data |-> d]

NoResponse == [status |-> "none", has_data |-> FALSE, data |-> << >>]

MemberResponses ==
    {TransportError, HttpError, OkNoData}
        \cup {OkData([k \in 1 .. Len(q) |-> [id |-> q[k]]]) :
                q \in {r \in Arrangements(Users, Cardinality(Users)) : Distinct(r)}}

PostResponses ==
    {TransportError, HttpError, OkNoData}
        \cup {OkData(q) : q \in {r \in Arrangements(PostPool, MaxPosts) : Distinct(r)}}

\* except requests.RequestException: both faults are RequestExceptions
Raises(resp) == resp.status # "ok"

\* response.json().get('data', [])
JsonData(resp) == IF resp.has_data THEN resp.data ELSE << >>

(***************************************************************************)
(* get_list_members                                                        *)
(***************************************************************************)
get_list_members_PlaceholderOnFault(resp) ==
    IF Raises(resp) THEN << <<"0">> >>
    ELSE [k \in 1 .. Len(JsonData(resp)) |-> JsonData(resp)[k].id]

get_list_members(resp) ==
    IF Raises(resp) THEN << >>
    ELSE [k \in 1 .. Len(JsonData(resp)) |-> JsonData(resp)[k].id]

(***************************************************************************)
(* get_user_tweets                                                         *)
(***************************************************************************)
\* start_time = utcnow() - timedelta(days = days); the clock counts days
StartTime(now, days) == now - days

\* params = {'max_results': 100, 'tweet.fields': ..., 'start_time': start_time}
Params(now, days) ==
    [max_results |-> MaxResults, fields |-> "created_at,text",
     start_time |-> StartTime(now, days)]

NoParams == [max_results |-> 0, fields |-> "", start_time |-> 0]

\* a clock value as it would be written into a record
Stamp(n) == <<"T", <<"0", "1", "2", "3", "4", "5", "6", "7", "8", "9">>[(n % 10) + 1]>>

MentionRecord_StampedWithStartTime(user_id, tweet, mention, start_time) ==
    [user_id |-> user_id,
     tweet_id |-> tweet.id,
     created_at |-> Stamp(start_time),
     token |-> mention.token,
     narrative |-> mention.context]

\* the dictionary appended to token_tweets; start_time is in scope and unused
MentionRecord(user_id, tweet, mention, start_time) ==
    [user_id |-> user_id,
     tweet_id |-> tweet.id,
     created_at |-> tweet.created_at,
     token |-> mention.token,
     narrative |-> mention.context]

\* for mention in token_mentions: token_tweets.append(...)
TweetRecords_LastMentionFirst(user_id, tweet, start_time) ==
    LET ms == extract_token_mentions(tweet.text)
    IN  [k \in 1 .. Len(ms) |->
            MentionRecord(user_id, tweet, ms[Len(ms) + 1 - k], start_time)]

TweetRecords(user_id, tweet, start_time) ==
    LET ms == extract_token_mentions(tweet.text)
    IN  [k \in 1 .. Len(ms) |-> MentionRecord(user_id, tweet, ms[k], start_time)]

\* for tweet in tweets_data: ...
RECURSIVE TokenTweets(_, _, _, _)
TokenTweets(user_id, tweets_data, k, start_time) ==
    IF k > Len(tweets_data) THEN << >>
    ELSE TweetRecords(user_id, tweets_data[k], start_time)
            \o TokenTweets(user_id, tweets_data, k + 1, start_time)

get_user_tweets_RaisesOnFault(user_id, now, resp) ==
    IF Raises(resp) THEN <<[user_id |-> user_id, tweet_id |-> << >>,
                            created_at |-> << >>, token |-> << >>,
                            narrative |-> <<"e", "r", "r">>]>>
    ELSE TokenTweets(user_id, JsonData(resp), 1, StartTime(now, DefaultDays))

get_user_tweets(user_id, now, resp) ==
    IF Raises(resp) THEN << >>
    ELSE TokenTweets(user_id, JsonData(resp), 1, StartTime(now, DefaultDays))

(***************************************************************************)
(* csv.DictWriter(csvfile, fieldnames = keys): writeheader, writerows.     *)
(* The file is opened with newline = '', so what is written is what the    *)
(* writer produces: fields joined by commas, each row ended by \r\n, a     *)
(* field quoted when it holds a comma, a quote or a line break.            *)
(***************************************************************************)
\* fieldnames = all_token_mentions[0].keys(): the header cells, as characters
HeaderCells ==
    << <<"u", "s", "e", "r", "_", "i", "d">>,
       <<"t", "w", "e", "e", "t", "_", "i", "d">>,
       <<"c", "r", "e", "a", "t", "e", "d", "_", "a", "t">>,
       <<"t", "o", "k", "e", "n">>,
       <<"n", "a", "r", "r", "a", "t", "i", "v", "e">> >>

\* all_token_mentions[0].keys() are the five keys, in the order they were set
RecordCells(rec) ==
    <<rec.user_id, rec.tweet_id, rec.created_at, rec.token, rec.narrative>>

NeedsQuote(f) == \E k \in 1 .. Len(f) : f[k] \in {",", "\"", "\r", "\n"}

RECURSIVE DoubleQuotes(_)
DoubleQuotes(f) ==
    IF f = << >> THEN << >>
    ELSE (IF Head(f) = "\"" THEN <<"\"", "\"">> ELSE <<Head(f)>>)
            \o DoubleQuotes(Tail(f))

CsvField(f) ==
    IF NeedsQuote(f) THEN <<"\"">> \o DoubleQuotes(f) \o <<"\"">> ELSE f

RECURSIVE JoinCells(_, _)
JoinCells(cells, k) ==
    IF k > Len(cells) THEN << >>
    ELSE (IF k > 1 THEN <<",">> ELSE << >>)
            \o CsvField(cells[k]) \o JoinCells(cells, k + 1)

CsvRow(cells) == JoinCells(cells, 1) \o <<"\r", "\n">>

RECURSIVE CsvRows(_, _)
CsvRows(records, k) ==
    IF k > Len(records) THEN << >>
    ELSE CsvRow(RecordCells(records[k])) \o CsvRows(records, k + 1)

\* writeheader(); writerows(all_token_mentions)
CsvText(records) == CsvRow(HeaderCells) \o CsvRows(records, 1)

\* open(output_file, 'w'): the file is created or truncated, then written
OpenAppend(old, new) == [exists |-> TRUE, content |-> old.content \o new]

OpenWrite(old, new) == [exists |-> TRUE, content |-> new]

\* if all_token_mentions: ... else: ...
ShouldWrite_Always(records) == TRUE

ShouldWrite(records) == records # << >>

Absent == [exists |-> FALSE, content |-> << >>]

NothingWritten == [done |-> FALSE, content |-> << >>]

Written(c) == [done |-> TRUE, content |-> c]

\* the side effects of a run, in order
Ev(ev, arg) == [ev |-> ev, arg |-> arg]

\* get_list_members: one request; a fault is logged as an error
MembersTrace(resp) ==
    <<Ev("GET members", << >>)>>
        \o (IF Raises(resp) THEN <<Ev("error", << >>)>> ELSE << >>)

\* get_user_tweets: one request; a fault is logged with the user id
FetchTrace_RetryOnce(user_id, resp) ==
    <<Ev("GET tweets", user_id)>>
        \o (IF Raises(resp)
            THEN <<Ev("GET tweets", user_id), Ev("error", user_id)>>
            ELSE << >>)

FetchTrace(user_id, resp) ==
    <<Ev("GET tweets", user_id)>>
        \o (IF Raises(resp) THEN <<Ev("error", user_id)>> ELSE << >>)

VARIABLES
    \* Spec: runs of scrape_list_tokens, one after the other
    pc,                 \* "idle", "start", "loop", "done"
    now,                \* the wall clock; it advances from run to run
    list_members,       \* list_members
    idx,                \* how many members the loop has processed
    all_token_mentions, \* all_token_mentions
    file,               \* the file at the output path
    trace,              \* the side effects of the current run, in order
    params,             \* the query parameters of its last posts request
    upstream,           \* the responses the current run has received
    wrote,              \* what the current run has written to the file
    before,             \* the file as the current run found it
    replay,             \* the run (its responses, its last parameters and
                        \* what it wrote) whose responses the upstream
                        \* repeats to the current run
    \* SpecExtract: one call of extract_token_mentions
    xpc,        \* "call": about to be called on text; "return": it has returned
    text,       \* the argument
    windows,    \* text[start:end] of each match, before .strip()
    mentions    \* the returned list

runvars ==
    <<pc, now, list_members, idx, all_token_mentions, file, trace, params,
      upstream, wrote, before, replay>>

xvars == <<xpc, text, windows, mentions>>

vars == <<runvars, xvars>>

NoUpstream == [members |-> NoResponse, tweets |-> << >>]

NoReplay ==
    [on |-> FALSE, upstream |-> NoUpstream, params |-> NoParams,
     wrote |-> NothingWritten]

InitRun ==
    /\ pc = "idle"
    /\ now = 0
    /\ list_members = << >>
    /\ idx = 0
    /\ all_token_mentions = << >>
    /\ trace = << >>
    /\ params = NoParams
    /\ upstream = NoUpstream
    /\ wrote = NothingWritten
    /\ before = Absent
    /\ replay = NoReplay

XIdle ==
    /\ xpc = "unused"
    /\ text = << >>
    /\ windows = << >>
    /\ mentions = << >>

Init ==
    /\ InitRun
    /\ file = Absent
    /\ XIdle

\* main(): a scraper is constructed and scrape_list_tokens is called.  The
\* upstream either answers afresh or repeats what it answered to the last run.
Invoke ==
    /\ pc \in {"idle", "done"}
    /\ now < MaxRuns
    /\ pc' = "start"
    /\ now' = now + 1
    /\ list_members' = << >>
    /\ idx' = 0
    /\ all_token_mentions' = << >>
    /\ trace' = << >>
    /\ params' = NoParams
    /\ upstream' = NoUpstream
    /\ wrote' = NothingWritten
    /\ before' = file
    /\ \E again \in BOOLEAN :
          /\ again => pc = "done"
          /\ replay' = IF again
                       THEN [on |-> TRUE, upstream |-> upstream,
                             params |-> params, wrote |-> wrote]
                       ELSE NoReplay
    /\ UNCHANGED <<file, xvars>>

\* list_members = self.get_list_members(); all_token_mentions = []
GetListMembers ==
    /\ pc = "start"
    /\ \E resp \in MemberResponses :
          /\ resp = (IF replay.on THEN replay.upstream.members ELSE resp)
          /\ upstream' = [upstream EXCEPT !.members = resp]
          /\ list_members' = get_list_members(resp)
          /\ trace' = trace \o MembersTrace(resp)
    /\ all_token_mentions' = << >>
    /\ idx' = 0
    /\ pc' = "loop"
    /\ UNCHANGED <<now, file, params, wrote, before, replay, xvars>>

\* the upstream answers a posts request with resp: any response, or the one
\* it gave at this place of the run it repeats
Answers(resp) ==
    resp = (IF replay.on THEN replay.upstream.tweets[idx + 1] ELSE resp)

\* the loop has a member left, and its request will be answered
LoopIterGuard ==
    /\ pc = "loop"
    /\ idx < Len(list_members)
    /\ {resp \in PostResponses : Answers(resp)} # { }

\* one turn of: for user_id in list_members
LoopIter ==
    /\ LoopIterGuard
    /\ LET user_id == list_members[idx + 1]
       IN  \E resp \in PostResponses :
              /\ Answers(resp)
              /\ upstream' = [upstream EXCEPT !.tweets = @ \o <<resp>>]
              /\ all_token_mentions' =
                    all_token_mentions \o get_user_tweets(user_id, now, resp)
              /\ trace' = trace \o <<Ev("info", user_id), Ev("sleep 1", << >>)>>
                            \o FetchTrace(user_id, resp)
    /\ params' = Params(now, DefaultDays)
    /\ idx' = idx + 1
    /\ UNCHANGED <<pc, now, list_members, file, wrote, before, replay, xvars>>

\* after the loop: if all_token_mentions: write the file, else: warn
WriteCsv ==
    /\ pc = "loop"
    /\ idx = Len(list_members)
    /\ IF ShouldWrite(all_token_mentions)
       THEN /\ file' = OpenWrite(file, CsvText(all_token_mentions))
            /\ wrote' = Written(CsvText(all_token_mentions))
            /\ trace' = trace \o <<Ev("write", << >>), Ev("info saved", << >>)>>
       ELSE /\ trace' = trace \o <<Ev("warning", << >>)>>
            /\ UNCHANGED <<file, wrote>>
    /\ pc' = "done"
    /\ UNCHANGED <<now, list_members, idx, all_token_mentions, params, upstream,
                   before, replay, xvars>>

Next == Invoke \/ GetListMembers \/ LoopIter \/ WriteCsv

Spec == Init /\ [][Next]_vars

InitExtract ==
    /\ InitRun
    /\ file = Absent
    /\ xpc = "call"
    /\ text \in TextInputs
    /\ windows = << >>
    /\ mentions = << >>

ExtractTokenMentions ==
    /\ xpc = "call"
    /\ xpc' = "return"
    /\ windows' = [i \in 1 .. Len(finditer(text)) |->
                        Window(text, finditer(text)[i])]
    /\ mentions' = extract_token_mentions(text)
    /\ UNCHANGED <<text, runvars>>

NextExtract == ExtractTokenMentions

SpecExtract == InitExtract /\ [][NextExtract]_vars

(***************************************************************************)
(* What the spec calls a mention, stated on the text alone: a dollar sign  *)
(* at offset s, then n uppercase letters, 3 <= n <= 10, then the end of    *)
(* the text or a character that is not a word character.                   *)
(***************************************************************************)
IsOccurrence(t, s, n) ==
    /\ At(t, s) = "$"
    /\ n \in MinTokenLen .. MaxTokenLen
    /\ s + n < Len(t)
    /\ \A k \in 1 .. n : At(t, s + k) \in Upper
    /\ (s + n + 1 = Len(t) \/ ~IsWord(At(t, s + n + 1)))

OccStarts(t) ==
    {s \in 0 .. Len(t) - 1 :
        /\ At(t, s) = "$"
        /\ \E n \in MinTokenLen .. MaxTokenLen : IsOccurrence(t, s, n)}

OccLen(t, s) == CHOOSE n \in MinTokenLen .. MaxTokenLen : IsOccurrence(t, s, n)

\* the offset of the last character of s, 0-based, is Len(s) - 1
IsTrimOf(c, w) ==
    \E i \in 0 .. Len(w) - Len(c) :
        /\ c = Slice(w, i, i + Len(c))
        /\ \A k \in 0 .. i - 1 : IsSpace(At(w, k))
        /\ \A k \in i + Len(c) .. Len(w) - 1 : IsSpace(At(w, k))
        /\ (c # << >> => ~IsSpace(c[1]) /\ ~IsSpace(c[Len(c)]))

Contains(c, part) ==
    \E i \in 0 .. Len(c) - Len(part) : Slice(c, i, i + Len(part)) = part

\* the untrimmed excerpt the spec describes for the occurrence at s
SpecWindow(t, s) ==
    LET e == s + 1 + OccLen(t, s)
        a == IF s - 100 > 0 THEN s - 100 ELSE 0
        b == IF e + 100 < Len(t) THEN e + 100 ELSE Len(t)
    IN  Slice(t, a, b)

DollarCount(t) == Cardinality({i \in 1 .. Len(t) : t[i] = "$"})

\* C6: the returned tokens are, in order of appearance, exactly the
\* occurrences of a dollar sign followed by 3 to 10 uppercase letters that no
\* word character follows: one mention per occurrence and no other, each token
\* made of 3 to 10 uppercase letters that follow a dollar sign in the text;
\* a text without such an occurrence yields the empty list.
C6_TokensAreTheOccurrences ==
    xpc = "return" =>
        LET occ == OccStarts(text)
        IN  /\ Len(mentions) = Cardinality(occ)
            /\ \A s \in occ :
                  mentions[1 + Cardinality({u \in occ : u < s})].token
                      = Slice(text, s + 1, s + 1 + OccLen(text, s))
            /\ \A i \in 1 .. Len(mentions) :
                  /\ Len(mentions[i].token) \in 3 .. 10
                  /\ \A k \in 1 .. Len(mentions[i].token) :
                        mentions[i].token[k] \in Upper
                  /\ Contains(text, <<"$">> \o mentions[i].token)
            /\ (occ = {} => mentions = << >>)

\* two mentions were returned and another dollar sign of the text starts none
\* (its run of letters is too short, too long, or runs into a word character)
C6_Witness ==
    /\ xpc = "return"
    /\ Len(mentions) = 2
    /\ DollarCount(text) = 3

\* C7: the excerpt of each match is text[max(0, start - 100) :
\* min(len(text), end + 100)] with the white space at its two ends removed,
\* and it contains the dollar sign and the token; each match has its own.
C7_ExcerptIsTrimmedWindow ==
    xpc = "return" =>
        LET occ == OccStarts(text)
        IN  \A s \in occ :
                LET c == mentions[1 + Cardinality({u \in occ : u < s})].context
                IN  /\ IsTrimOf(c, SpecWindow(text, s))
                    /\ Contains(c, Slice(text, s, s + 1 + OccLen(text, s)))

\* two nearby matches whose windows are clipped differently and trimmed
C7_Witness ==
    /\ xpc = "return"
    /\ Len(mentions) = 2
    /\ mentions[1].context # mentions[2].context
    /\ \E s \in OccStarts(text) :
          /\ s > 100
          /\ \E i \in 1 .. 2 :
                /\ Contains(mentions[i].context, Slice(text, s, s + 4))
                /\ Len(mentions[i].context) < Len(SpecWindow(text, s))

\* C8 as the spec states it: an untrimmed excerpt has at most 201 characters.
C8_WindowAtMost201 ==
    xpc = "return" =>
        \A i \in 1 .. Len(windows) : Len(windows[i]) <= 201

\* C8, amended: an untrimmed excerpt has at most 200 characters more than its
\* match (the dollar sign and the token), hence at most 211.
C8_WindowAtMost211 ==
    xpc = "return" =>
        /\ Len(windows) = Len(mentions)
        /\ \A i \in 1 .. Len(mentions) :
              /\ Len(windows[i]) <= 200 + 1 + Len(mentions[i].token)
              /\ Len(windows[i]) <= 211
              /\ Len(mentions[i].context) <= Len(windows[i])

\* an untrimmed excerpt of 211 characters
C8_Witness ==
    /\ xpc = "return"
    /\ Len(mentions) = 1
    /\ Len(windows[1]) = 211

(***************************************************************************)
(* Runs of scrape_list_tokens.                                             *)
(***************************************************************************)
Running == pc \in {"start", "loop"}

Count(q, ev) == Cardinality({k \in 1 .. Len(q) : q[k].ev = ev})

Requests(q) == Count(q, "GET members") + Count(q, "GET tweets")

\* the rows of a file: the \r\n that end them (no field of the model's posts
\* holds a line break)
RowCount(c) ==
    Cardinality({k \in 1 .. Len(c) - 1 : c[k] = "\r" /\ c[k + 1] = "\n"})

\* C1: at the end of a run the file is written if and only if a record was
\* accumulated.  With no record nothing is written (the file is as the run
\* found it) and a warning is logged; with records the file is the header row
\* and one row per record, whatever it held before.
C1_WrittenIffRecords ==
    pc = "done" =>
        /\ wrote.done <=> all_token_mentions # << >>
        /\ Count(trace, "write") = (IF all_token_mentions # << >> THEN 1 ELSE 0)
        /\ all_token_mentions = << >> =>
              /\ file = before
              /\ trace[Len(trace)] = Ev("warning", << >>)
        /\ all_token_mentions # << >> =>
              /\ file.exists
              /\ file.content = wrote.content
              /\ SubSeq(file.content, 1, Len(CsvRow(HeaderCells))) = CsvRow(HeaderCells)
              /\ RowCount(file.content) = 1 + Len(all_token_mentions)
              /\ Count(trace, "warning") = 0

\* a run that accumulated nothing has ended, and the file an earlier run
\* wrote is still there
C1_Witness ==
    /\ pc = "done"
    /\ all_token_mentions = << >>
    /\ file.exists
    /\ file = before

\* C2 as the spec states it: after each run the file holds what that run
\* produced and nothing else, so it is empty when the run found no mention.
C2_FileIsThisRunsOutput ==
    pc = "done" =>
        file.content = (IF all_token_mentions = << >> THEN << >>
                        ELSE CsvText(all_token_mentions))

\* C2, amended: a step changes the file only by replacing it with the header
\* and the rows of the run that ends with that step, a run that found a
\* mention (nothing is appended, no earlier row is kept); a run that found no
\* mention ends with the file as it was, be it absent or an earlier run's.
C2_RewrittenOnlyByRunsWithMentions ==
    [][ /\ file' # file =>
            /\ pc = "loop" /\ pc' = "done"
            /\ all_token_mentions # << >>
            /\ file' = [exists |-> TRUE, content |-> CsvText(all_token_mentions)]
        /\ (pc = "loop" /\ pc' = "done" /\ all_token_mentions = << >>) =>
            file' = file
        /\ (pc = "loop" /\ pc' = "done" /\ all_token_mentions # << >>) =>
            file'.content = CsvText(all_token_mentions)
      ]_vars

\* a second run has replaced the rows of a first one by other rows
C2_Witness ==
    /\ pc = "done"
    /\ wrote.done
    /\ before.exists
    /\ before.content # file.content
    /\ file.content = CsvText(all_token_mentions)

\* C3: when the list-members request fails, get_list_members returns the
\* empty list, no posts request is issued, nothing is written, and the run
\* goes on to its end.
C3_MembersFaultYieldsNothing ==
    (pc \in {"loop", "done"} /\ Raises(upstream.members)) =>
        /\ list_members = << >>
        /\ Count(trace, "GET tweets") = 0
        /\ Count(trace, "write") = 0
        /\ ~wrote.done
        /\ file = before
        /\ all_token_mentions = << >>
        /\ (pc = "loop" => ENABLED WriteCsv)
        /\ (pc = "done" => trace[Len(trace)] = Ev("warning", << >>))

\* a run whose list-members request met a non-success status has ended, with
\* the file of an earlier run in place
C3_Witness ==
    /\ pc = "done"
    /\ upstream.members = HttpError
    /\ file.exists

\* what the first k members contribute, a member whose request failed nothing
RECURSIVE RecordsOfMembers(_)
RecordsOfMembers(k) ==
    IF k = 0 THEN << >>
    ELSE RecordsOfMembers(k - 1)
            \o (IF Raises(upstream.tweets[k]) THEN << >>
                ELSE TokenTweets(list_members[k], JsonData(upstream.tweets[k]), 1,
                                 StartTime(now, DefaultDays)))

\* C4: a failed posts request yields no record for its member and does not
\* stop the loop: every member is asked for, and the accumulator holds what
\* the other members' responses give, as if the failed member had no mention.
C4_PostsFaultSkipsOneMember ==
    pc \in {"loop", "done"} =>
        /\ Len(upstream.tweets) = idx
        /\ Count(trace, "GET tweets") = idx
        /\ (pc = "done" => idx = Len(list_members))
        /\ all_token_mentions = RecordsOfMembers(idx)
        /\ \A k \in 1 .. idx :
              Raises(upstream.tweets[k]) =>
                  \A r \in 1 .. Len(all_token_mentions) :
                      all_token_mentions[r].user_id # list_members[k]

\* the first member's request failed, the second member's mentions were
\* written
C4_Witness ==
    /\ pc = "done"
    /\ Len(list_members) = 2
    /\ Raises(upstream.tweets[1])
    /\ ~Raises(upstream.tweets[2])
    /\ wrote.done

\* the occurrences of t from offset `from` on, in the order of the text
RECURSIVE OccSeq(_, _)
OccSeq(t, from) ==
    LET later == {s \in OccStarts(t) : s >= from}
    IN  IF later = {} THEN << >>
        ELSE LET s == CHOOSE x \in later : \A u \in later : x <= u
             IN  <<s>> \o OccSeq(t, s + 1)

Key(user_id, tweet_id, created_at, token) ==
    [user_id |-> user_id, tweet_id |-> tweet_id, created_at |-> created_at,
     token |-> token]

\* one key per (post, occurrence) pair, in the order of the text
KeysOfPost(user_id, post) ==
    LET occ == OccSeq(post.text, 0)
    IN  [k \in 1 .. Len(occ) |->
            Key(user_id, post.id, post.created_at,
                Slice(post.text, occ[k] + 1, occ[k] + 1 + OccLen(post.text, occ[k])))]

RECURSIVE KeysOfPosts(_, _, _)
KeysOfPosts(user_id, posts, k) ==
    IF k = 0 THEN << >>
    ELSE KeysOfPosts(user_id, posts, k - 1) \o KeysOfPost(user_id, posts[k])

RECURSIVE KeysOfMembers(_)
KeysOfMembers(k) ==
    IF k = 0 THEN << >>
    ELSE KeysOfMembers(k - 1)
            \o KeysOfPosts(list_members[k], JsonData(upstream.tweets[k]),
                           Len(JsonData(upstream.tweets[k])))

\* C5: the records are, member by member in the order of the list, post by
\* post in the order of the response, occurrence by occurrence in the order
\* of the text, one record per (post, occurrence) pair: none dropped, merged
\* or moved; and the rows written are these records, in this order.
C5_RecordsInListPostTextOrder ==
    pc \in {"loop", "done"} =>
        LET keys == KeysOfMembers(idx)
        IN  /\ Len(all_token_mentions) = Len(keys)
            /\ \A r \in 1 .. Len(all_token_mentions) :
                  LET rec == all_token_mentions[r]
                  IN  /\ Key(rec.user_id, rec.tweet_id, rec.created_at, rec.token)
                            = keys[r]
                      /\ Contains(rec.narrative, <<"$">> \o rec.token)
            /\ (pc = "done" /\ wrote.done) =>
                  wrote.content
                      = CsvRow(HeaderCells) \o CsvRows(all_token_mentions, 1)

\* two members, the first with two posts: its first post mentions one token
\* twice and then another token, its second post one token; the second
\* member has posts with mentions too, and all the records were written
C5_Witness ==
    /\ pc = "done"
    /\ wrote.done
    /\ Len(list_members) = 2
    /\ Len(JsonData(upstream.tweets[1])) = 2
    /\ Len(all_token_mentions) > 4
    /\ \A r \in 1 .. 3 :
          /\ all_token_mentions[r].user_id = list_members[1]
          /\ all_token_mentions[r].tweet_id = JsonData(upstream.tweets[1])[1].id
    /\ all_token_mentions[1] = all_token_mentions[2]
    /\ all_token_mentions[2].token # all_token_mentions[3].token
    /\ all_token_mentions[4].user_id = list_members[1]
    /\ all_token_mentions[4].tweet_id = JsonData(upstream.tweets[1])[2].id
    /\ all_token_mentions[5].user_id = list_members[2]

\* C9: a run that received the responses an earlier run received, at another
\* time of the clock and so with another start_time in its requests, has
\* written what the earlier run wrote (or nothing, as the earlier run), and
\* leaves the file with the content the earlier run left.
C9_SameResponsesSameOutput ==
    (pc = "done" /\ replay.on /\ upstream = replay.upstream) =>
        /\ wrote = replay.wrote
        /\ file = before

\* a run has written again what the run before it wrote, having sent another
\* start_time in its requests
C9_Witness ==
    /\ pc = "done"
    /\ replay.on
    /\ upstream = replay.upstream
    /\ wrote.done
    /\ Len(list_members) = 2
    /\ params.start_time # replay.params.start_time

\* the trace of the loop over the first k members
RECURSIVE LoopTrace(_)
LoopTrace(k) ==
    IF k = 0 THEN << >>
    ELSE LoopTrace(k - 1)
            \o <<Ev("info", list_members[k]), Ev("sleep 1", << >>),
                 Ev("GET tweets", list_members[k])>>
            \o (IF Raises(upstream.tweets[k])
                THEN <<Ev("error", list_members[k])>> ELSE << >>)

\* the steps a run has left, at most
StepsLeft ==
    IF pc = "start" THEN Cardinality(Users) + 2
    ELSE IF pc = "loop" THEN Len(list_members) - idx + 1
    ELSE 0

\* C10: a run is one list-members request, then for each member in the order
\* of the list the log message, the pause and one posts request (one also
\* when it fails), then at most one write: 1 + N requests for N members.
\* A run that has not ended can take a step, and each step leaves it fewer
\* steps to take: every run ends.
C10_SequentialAndTerminates ==
    /\ [](pc = "done" =>
            /\ trace = <<Ev("GET members", << >>)>>
                        \o (IF Raises(upstream.members)
                            THEN <<Ev("error", << >>)>> ELSE << >>)
                        \o LoopTrace(Len(list_members))
                        \o (IF wrote.done
                            THEN <<Ev("write", << >>), Ev("info saved", << >>)>>
                            ELSE <<Ev("warning", << >>)>>)
            /\ Requests(trace) = 1 + Len(list_members)
            /\ Count(trace, "write") <= 1)
    /\ [](Running => Requests(trace) <= 1 + idx /\ Count(trace, "write") = 0)
    /\ [](Running =>
            \/ ENABLED GetListMembers
            \/ LoopIterGuard
            \/ ENABLED WriteCsv)
    /\ [][Running => StepsLeft' < StepsLeft]_vars

\* a run over two members has ended after three requests, the second
\* member's having failed, and has written
C10_Witness ==
    /\ pc = "done"
    /\ Len(list_members) = 2
    /\ Requests(trace) = 3
    /\ Raises(upstream.tweets[2])
    /\ wrote.done

====
